---- MODULE Spec2Model ----
(***************************************************************************)
(* touchosc2midi: a TouchOSC <-> MIDI bridge (touchosc2midi.py).           *)
(*                                                                         *)
(* A MIDI message is modelled by its byte form (mido's message.bytes()),   *)
(* a sequence of integers in 0..255; mido.parse's "no message" (None) is   *)
(* the empty sequence.  An OSC 'm' argument is the sequence of its bytes   *)
(* in the order pyliblo hands them to the callback.                        *)
(*                                                                         *)
(* Spec      the running program: main()'s start-up, wait loop and         *)
(*           interrupt handler, the liblo server thread dispatching        *)
(*           datagrams and the MIDI input delivering events.               *)
(* UnitSpec  the module's functions called one at a time on inputs drawn   *)
(*           from bounded sets (the codec and the two callbacks).          *)
(***************************************************************************)
EXTENDS Integers, Sequences, FiniteSets, TLC

VARIABLES
    pc,             \* main()'s position: the statement it executes next
    exc,            \* the exception main() caught or died of ("none" if none)
    raised_at,      \* the statement that raised exc ("none" if none)
    exit_code,      \* the process's exit status, -1 while it runs
    options_ip,     \* options.get('--ip'): an address, or NoIP
    local_ip,       \* what main_ip() returned, NoIP if it was not called
    midi_in,        \* "unbound" | "open" | "closed"
    midi_out,       \* "unbound" | "open" | "closed"
    target_address, \* the local target_address: NoIP until line 119-122
    server,         \* "unbound" | "created" | "running" | "stopped" | "freed"
    methods,        \* the (path, typespec) pairs registered with add_method
    target,         \* the liblo.Address of line 128, or NoTarget
    midi_callback,  \* TRUE once midi_in.callback is set (line 131)
    released,       \* the release calls of the interrupt handler, in order
    osc_log,        \* messages handed to the server / the OSC callback, each
                    \* with the exception raised and sink.send's arguments
    sink_log,       \* the messages sink.send accepted, in order
    midi_log,       \* events handed to the MIDI callback, each with the
                    \* exception raised and the liblo.send calls made
    net_log,        \* the liblo.send calls, in order
    codec           \* UnitSpec: the last codec call and its result

vars == <<pc, exc, raised_at, exit_code, options_ip, local_ip, midi_in, midi_out, target_address,
          server, methods, target, midi_callback, released, osc_log, sink_log,
          midi_log, net_log, codec>>

-----------------------------------------------------------------------------
(* Bounds of the model *)

\* the longest OSC argument handed to the functions in UnitSpec
MaxPayloadLen == 5
\* datagrams the server receives in one behaviour of Spec
MaxOsc == 2
\* events the MIDI input delivers in one behaviour of Spec
MaxMidi == 2

-----------------------------------------------------------------------------
(* Program constants *)

PORT == 12345

\* the port-id byte message_to_oscmidipayload puts first
PortId == 0

\* the controller group in the OSC path of create_callback_on_midi
PathGroup == 8

\* the divisor of create_callback_on_midi's float argument
FloatScale == 128

-----------------------------------------------------------------------------
(* Bytes and MIDI messages *)

\* data bytes 0x00, 0x3C, 0x64; status bytes note_on 0x90, program_change
\* 0xC0, clock 0xF8
ModelBytes == {0, 60, 100, 144, 192, 248}

IsData(b) == b < 128

None == << >>

Min(a, b) == IF a < b THEN a ELSE b

\* Python's s[::-1]
Reverse(s) == [i \in 1..Len(s) |-> s[Len(s) + 1 - i]]

\* Python's s[0:n]
Slice(s, n) == SubSeq(s, 1, Min(n, Len(s)))

\* mido's message length by status byte; 0 for an undefined status. A sysex
\* message (status 240) has no fixed length and is handled in FeedByte.
SpecLength(status) ==
    IF status \in 128..239
    THEN (IF (status \div 16) \in {12, 13} THEN 2 ELSE 3)
    ELSE CASE status \in {241, 243} -> 2
           [] status = 242 -> 3
           [] status \in {246, 247, 248, 250, 251, 252, 254, 255} -> 1
           [] OTHER -> 0

\* mido's message.type, for the types the program tells apart
MsgType(message) ==
    IF message = None THEN "none"
    ELSE CASE message[1] \in 128..143 -> "note_off"
           [] message[1] \in 144..159 -> "note_on"
           [] message[1] \in 176..191 -> "control_change"
           [] message[1] \in 192..207 -> "program_change"
           [] message[1] = 240 -> "sysex"
           [] message[1] = 248 -> "clock"
           [] OTHER -> "other"

\* mido's parser, one byte: st = [status, bytes, len, messages]
FeedByte(st, b) ==
    IF ~IsData(b)
    THEN IF b = 247
         THEN [st EXCEPT !.status = 0,
                         !.messages = IF st.status = 240
                                      THEN Append(@, Append(st.bytes, 247))
                                      ELSE @]
         ELSE IF b \in 248..255
         THEN [st EXCEPT !.status = IF st.status # 240 THEN 0 ELSE @,
                         !.messages = IF SpecLength(b) # 0
                                      THEN Append(@, <<b>>) ELSE @]
         ELSE IF b = 240
         THEN [st EXCEPT !.status = b, !.bytes = <<b>>, !.len = 0]
         ELSE IF SpecLength(b) = 1
         THEN [st EXCEPT !.status = 0, !.messages = Append(@, <<b>>)]
         ELSE IF SpecLength(b) # 0
         THEN [st EXCEPT !.status = b, !.bytes = <<b>>, !.len = SpecLength(b)]
         ELSE st
    ELSE IF st.status # 0
         THEN IF st.status # 240 /\ Len(st.bytes) + 1 = st.len
              THEN [st EXCEPT !.status = 0,
                              !.messages = Append(@, Append(st.bytes, b))]
              ELSE [st EXCEPT !.bytes = Append(@, b)]
         ELSE st

RECURSIVE Feed(_, _)
Feed(st, data) ==
    IF data = << >> THEN st ELSE Feed(FeedByte(st, Head(data)), Tail(data))

\* mido.parse(data): the first message in data, or None
MidoParse(data) ==
    LET st == Feed([status |-> 0, bytes |-> << >>, len |-> 0,
                    messages |-> << >>], data)
    IN  IF st.messages = << >> THEN None ELSE Head(st.messages)

-----------------------------------------------------------------------------
(* The codec *)

\* the decoder without the reversal: the payload read in OSC 1.0 order
message_from_oscmidipayload_unreversed(bites) ==
    MidoParse(Slice(bites[1], 4))

\* the decoder rejecting an argument that is not 4 bytes long
message_from_oscmidipayload_strict(bites) ==
    IF Len(bites[1]) # 4 THEN None ELSE MidoParse(Slice(Reverse(bites[1]), 4))

\* line 51-54; bites is the callback's args, bites[0] its first argument
message_from_oscmidipayload(bites) ==
    MidoParse(Slice(Reverse(bites[1]), 4))

\* the encoder in OSC 1.0 order
message_to_oscmidipayload_osc10(message) ==
    LET bites == <<PortId>> \o message
    IN  IF Len(bites) # 4
        THEN [exc |-> "AssertionError", val |-> << >>]
        ELSE [exc |-> "none", val |-> <<bites[1], bites[2], bites[3], bites[4]>>]

\* line 62-64 (Python's bites[k] is bites[k+1] here)
message_to_oscmidipayload(message) ==
    LET bites == <<PortId>> \o message
    IN  IF Len(bites) # 4
        THEN [exc |-> "AssertionError", val |-> << >>]
        ELSE [exc |-> "none", val |-> <<bites[1], bites[4], bites[3], bites[2]>>]

-----------------------------------------------------------------------------
(* The callbacks *)

\* a sink that plays every event twice
SinkSend_twice(msg) ==
    IF msg = None
    THEN [exc |-> "TypeError", given |-> <<msg>>, sent |-> << >>]
    ELSE [exc |-> "none", given |-> <<msg>>, sent |-> <<msg, msg>>]

\* sink.send(msg) on the open MIDI output: mido refuses what is no Message.
\* given: the arguments sink.send was called with; sent: what it accepted
SinkSend(msg) ==
    IF msg = None
    THEN [exc |-> "TypeError", given |-> <<msg>>, sent |-> << >>]
    ELSE [exc |-> "none", given |-> <<msg>>, sent |-> <<msg>>]

\* create_callback_on_osc(sink).callback(path, args, types, src), line 68-77:
\* the exception it raises ("none": it returns) and what it sent to the sink
callback_on_osc(path, args, types) ==
    IF path # "/midi"
    THEN [exc |-> "AssertionError", given |-> << >>, sent |-> << >>]
    ELSE IF types # "m"
    THEN [exc |-> "AssertionError", given |-> << >>, sent |-> << >>]
    ELSE SinkSend(message_from_oscmidipayload(args))

\* the liblo.Message of line 87-88 for the bytes b of an event (Python's b[1]
\* and b[2] are b[2] and b[3] here); the float b[2] / 128.0 is kept as a
\* fraction
OscMessage(b) ==
    [path  |-> "/midi/" \o ToString(PathGroup) \o "/" \o ToString(b[2]),
     types |-> "f",
     args  |-> <<[num |-> b[3], den |-> FloatScale]>>]

\* the MIDI callback built on the codec: ('/midi', 'm', encode(message))
callback_on_midi_encoding(to, message, send_ok) ==
    IF MsgType(message) = "clock" THEN [exc |-> "none", sent |-> << >>]
    ELSE LET e == message_to_oscmidipayload(message)
         IN  IF e.exc # "none" THEN [exc |-> e.exc, sent |-> << >>]
             ELSE [exc  |-> IF send_ok THEN "none" ELSE "IOError",
                   sent |-> <<[to |-> to, ok |-> send_ok, path |-> "/midi",
                               types |-> "m", args |-> <<e.val>>]>>]

\* the MIDI callback without the clock filter of line 83-84
callback_on_midi_unfiltered(to, message, send_ok) ==
    IF Len(message) < 3 THEN [exc |-> "IndexError", sent |-> << >>]
    ELSE LET osc == OscMessage(message)
         IN  [exc  |-> IF send_ok THEN "none" ELSE "IOError",
              sent |-> <<[to |-> to, ok |-> send_ok, path |-> osc.path,
                          types |-> osc.types, args |-> osc.args]>>]

\* create_callback_on_midi(target).callback(message), line 82-95: the
\* exception it raises ("none": it returns) and its liblo.send calls; send_ok
\* is whether liblo.send succeeds (it raises IOError when it does not)
callback_on_midi(to, message, send_ok) ==
    IF MsgType(message) = "clock" THEN [exc |-> "none", sent |-> << >>]
    ELSE IF Len(message) < 2 THEN [exc |-> "IndexError", sent |-> << >>]
    ELSE IF Len(message) < 3 THEN [exc |-> "IndexError", sent |-> << >>]
    ELSE LET osc == OscMessage(message)
         IN  [exc  |-> IF send_ok THEN "none" ELSE "IOError",
              sent |-> <<[to |-> to, ok |-> send_ok, path |-> osc.path,
                          types |-> osc.types, args |-> osc.args]>>]

-----------------------------------------------------------------------------
(* Peer resolution *)

NoIP == << >>

NoTarget == [host |-> NoIP, port |-> -1, proto |-> "none"]

\* the prefix length main() appends to main_ip()
PrefixLen == 16

\* 2^n
RECURSIVE Pow2(_)
Pow2(n) == IF n = 0 THEN 1 ELSE 2 * Pow2(n - 1)

\* the number of host bits in the k-th octet of an address with this prefix
HostBits(k, prefix) ==
    IF 8 * k <= prefix THEN 0
    ELSE IF 8 * (k - 1) >= prefix THEN 8
    ELSE 8 * k - prefix

\* the broadcast address of the /24 network, whatever the prefix
BroadcastOfLastOctet(ip, prefix) == <<ip[1], ip[2], ip[3], 255>>

\* str(IPNetwork(ip + "/" + prefix).broadcast): the host bits all set
Broadcast(ip, prefix) ==
    [k \in 1..4 |->
        LET size == Pow2(HostBits(k, prefix))
        IN  ip[k] - (ip[k] % size) + (size - 1)]

\* line 119-122: target_address for the option --ip (NoIP: not given) and
\* the address main_ip() returns
TargetAddress(opt, ip) ==
    IF opt # NoIP THEN opt ELSE Broadcast(ip, PrefixLen)

\* the values of --ip the model starts with: none, or an explicit address
IpOptions == {NoIP, <<10, 0, 0, 5>>}

\* the addresses main_ip() may return
LocalIPs == {<<192, 168, 1, 7>>, <<10, 1, 2, 3>>}

-----------------------------------------------------------------------------
(* Inputs of the running program *)

\* note_on 60 100, program_change 60, clock, a sysex of two data bytes
MidiEvents == {<<144, 60, 100>>, <<192, 60>>, <<248>>, <<240, 1, 2, 247>>}

\* an 'm' argument is always 4 bytes: note_on 60 100 in TouchOSC order and
\* in OSC 1.0 order, and note_on 60 0 in TouchOSC order
WirePayloads == {<<0, 100, 60, 144>>, <<0, 144, 60, 100>>, <<0, 0, 60, 144>>}

\* the datagrams the server receives: the registered "/midi" 'm' message
\* with each payload, another path, and another type tag
Datagrams ==
    {[path |-> "/midi", types |-> "m", args |-> <<p>>] : p \in WirePayloads}
    \cup {[path |-> "/foo", types |-> "m", args |-> <<<<0, 100, 60, 144>>>>],
          [path |-> "/midi", types |-> "f", args |-> <<<<0, 100, 60, 144>>>>]}

Paths == {"/midi", "/foo"}

TypeTags == {"m", "f"}

\* the octets of the addresses handed to the peer resolution in UnitSpec
OctetValues == {0, 1, 127, 128, 254, 255}

UnitIPs == [1..4 -> OctetValues]

\* every byte sequence up to MaxPayloadLen over ModelBytes
Payloads == UNION {[1..n -> ModelBytes] : n \in 0..MaxPayloadLen}

\* every well-formed MIDI message over ModelBytes
Messages ==
    {m \in UNION {[1..n -> ModelBytes] : n \in 1..3} :
        /\ ~IsData(m[1])
        /\ SpecLength(m[1]) = Len(m)
        /\ \A i \in 2..Len(m) : IsData(m[i])}

NoCodec == [op |-> "none", in |-> << >>, mid |-> << >>, exc |-> "none",
            out |-> << >>]

-----------------------------------------------------------------------------
(* main(), line 111-141 *)

\* the statements of the try block, by what they call
TryPcs == {"configure_ioports", "resolve_peer", "ServerThread", "add_method",
           "Address", "set_callback", "server_start", "wait"}

Terminated == {"done", "crashed"}

Init ==
    /\ pc = "configure_ioports"
    /\ exc = "none"
    /\ raised_at = "none"
    /\ exit_code = -1
    /\ options_ip \in IpOptions
    /\ local_ip = NoIP
    /\ midi_in = "unbound"
    /\ midi_out = "unbound"
    /\ target_address = NoIP
    /\ server = "unbound"
    /\ methods = {}
    /\ target = NoTarget
    /\ midi_callback = FALSE
    /\ released = << >>
    /\ osc_log = << >>
    /\ sink_log = << >>
    /\ midi_log = << >>
    /\ net_log = << >>
    /\ codec = NoCodec

\* line 112-116
ConfigurePorts ==
    /\ pc = "configure_ioports"
    /\ midi_in' = "open"
    /\ midi_out' = "open"
    /\ pc' = "resolve_peer"
    /\ UNCHANGED <<exc, raised_at, exit_code, options_ip, local_ip, target_address, server, methods,
                   target, midi_callback, released, osc_log, sink_log,
                   midi_log, net_log, codec>>

\* line 118-122: main_ip() is called only when --ip is not given
ResolvePeer ==
    /\ pc = "resolve_peer"
    /\ IF options_ip # NoIP
       THEN /\ target_address' = TargetAddress(options_ip, NoIP)
            /\ local_ip' = local_ip
       ELSE \E ip \in LocalIPs :
               /\ target_address' = TargetAddress(options_ip, ip)
               /\ local_ip' = ip
    /\ pc' = "ServerThread"
    /\ UNCHANGED <<exc, raised_at, exit_code, options_ip, midi_in, midi_out,
                   server, methods, target, midi_callback, released, osc_log,
                   sink_log, midi_log, net_log, codec>>

\* a listener that starts receiving as soon as it is created
CreateServer_started ==
    /\ pc = "ServerThread"
    /\ server' = "running"
    /\ pc' = "add_method"
    /\ UNCHANGED <<exc, raised_at, exit_code, options_ip, local_ip, midi_in, midi_out,
                   target_address, methods, target, midi_callback, released,
                   osc_log, sink_log, midi_log, net_log, codec>>

\* line 125
CreateServer ==
    /\ pc = "ServerThread"
    /\ server' = "created"
    /\ pc' = "add_method"
    /\ UNCHANGED <<exc, raised_at, exit_code, options_ip, local_ip, midi_in, midi_out,
                   target_address, methods, target, midi_callback, released,
                   osc_log, sink_log, midi_log, net_log, codec>>

\* line 126
AddMethod ==
    /\ pc = "add_method"
    /\ methods' = methods \cup {<<"/midi", "m">>}
    /\ pc' = "Address"
    /\ UNCHANGED <<exc, raised_at, exit_code, options_ip, local_ip, midi_in, midi_out,
                   target_address, server, target, midi_callback, released,
                   osc_log, sink_log, midi_log, net_log, codec>>

\* the peer on the listening port itself
CreateTarget_listening_port ==
    /\ pc = "Address"
    /\ target' = [host |-> target_address, port |-> PORT, proto |-> "UDP"]
    /\ pc' = "set_callback"
    /\ UNCHANGED <<exc, raised_at, exit_code, options_ip, local_ip, midi_in,
                   midi_out, target_address, server, methods, midi_callback,
                   released, osc_log, sink_log, midi_log, net_log, codec>>

\* line 128
CreateTarget ==
    /\ pc = "Address"
    /\ target' = [host |-> target_address, port |-> PORT + 1, proto |-> "UDP"]
    /\ pc' = "set_callback"
    /\ UNCHANGED <<exc, raised_at, exit_code, options_ip, local_ip, midi_in, midi_out,
                   target_address, server, methods, midi_callback, released,
                   osc_log, sink_log, midi_log, net_log, codec>>

\* line 131
SetCallback ==
    /\ pc = "set_callback"
    /\ midi_callback' = TRUE
    /\ pc' = "server_start"
    /\ UNCHANGED <<exc, raised_at, exit_code, options_ip, local_ip, midi_in, midi_out,
                   target_address, server, methods, target, released, osc_log,
                   sink_log, midi_log, net_log, codec>>

\* line 134
ServerStart ==
    /\ pc = "server_start"
    /\ server' = "running"
    /\ pc' = "wait"
    /\ UNCHANGED <<exc, raised_at, exit_code, options_ip, local_ip, midi_in, midi_out,
                   target_address, methods, target, midi_callback, released,
                   osc_log, sink_log, midi_log, net_log, codec>>

\* line 135-136: one turn of the wait loop
Wait ==
    /\ pc = "wait"
    /\ UNCHANGED vars

\* a startup failure that is caught and logged, main() going on to wait
StartupError_ignored ==
    /\ \/ pc = "configure_ioports" /\ exc' = "IOError"
       \/ pc = "resolve_peer" /\ options_ip = NoIP /\ exc' = "socket.error"
       \/ pc = "ServerThread" /\ exc' = "ServerError"
    /\ raised_at' = pc
    /\ pc' = "wait"
    /\ UNCHANGED <<exit_code, options_ip, local_ip, midi_in, midi_out,
                   target_address, server, methods, target, midi_callback,
                   released, osc_log, sink_log, midi_log, net_log, codec>>

\* configure_ioports, main_ip or liblo.ServerThread raises: no except clause
\* of main() catches it
StartupError ==
    /\ \/ pc = "configure_ioports" /\ exc' = "IOError"
       \/ pc = "resolve_peer" /\ options_ip = NoIP /\ exc' = "socket.error"
       \/ pc = "ServerThread" /\ exc' = "ServerError"
    /\ raised_at' = pc
    /\ pc' = "crashed"
    /\ exit_code' = 1
    /\ UNCHANGED <<options_ip, local_ip, midi_in, midi_out, target_address, server,
                   methods, target, midi_callback, released, osc_log,
                   sink_log, midi_log, net_log, codec>>

\* the wait loop ends by anything but KeyboardInterrupt (another exception,
\* a terminating signal): line 137 does not catch it
AbnormalExit ==
    /\ pc = "wait"
    /\ exc' = "Exception"
    /\ raised_at' = pc
    /\ pc' = "crashed"
    /\ exit_code' = 1
    /\ UNCHANGED <<options_ip, local_ip, midi_in, midi_out, target_address, server,
                   methods, target, midi_callback, released, osc_log,
                   sink_log, midi_log, net_log, codec>>

\* KeyboardInterrupt raised anywhere in the try block: line 137
KeyboardInterrupt ==
    /\ pc \in TryPcs
    /\ exc' = "KeyboardInterrupt"
    /\ raised_at' = pc
    /\ pc' = "server_stop"
    /\ UNCHANGED <<exit_code, options_ip, local_ip, midi_in, midi_out, target_address,
                   server, methods, target, midi_callback, released, osc_log,
                   sink_log, midi_log, net_log, codec>>

\* line 138: server is a local of main(), unbound until line 125
HandlerStop ==
    /\ pc = "server_stop"
    /\ IF server = "unbound"
       THEN /\ exc' = "NameError"
            /\ raised_at' = pc
            /\ pc' = "crashed"
            /\ exit_code' = 1
            /\ UNCHANGED <<server, released>>
       ELSE /\ server' = "stopped"
            /\ released' = Append(released, "server.stop")
            /\ pc' = "server_free"
            /\ UNCHANGED <<exc, raised_at, exit_code>>
    /\ UNCHANGED <<options_ip, local_ip, midi_in, midi_out, target_address, methods,
                   target, midi_callback, osc_log, sink_log, midi_log,
                   net_log, codec>>

\* line 139
HandlerFree ==
    /\ pc = "server_free"
    /\ server' = "freed"
    /\ released' = Append(released, "server.free")
    /\ pc' = "midi_in_close"
    /\ UNCHANGED <<exc, raised_at, exit_code, options_ip, local_ip, midi_in, midi_out,
                   target_address, methods, target, midi_callback, osc_log,
                   sink_log, midi_log, net_log, codec>>

\* line 140-141, and main() returns
HandlerClose ==
    /\ pc = "midi_in_close"
    /\ midi_in' = "closed"
    /\ released' = Append(released, "midi_in.close")
    /\ pc' = "done"
    /\ exit_code' = 0
    /\ UNCHANGED <<exc, raised_at, options_ip, local_ip, midi_out, target_address, server, methods,
                   target, midi_callback, osc_log, sink_log, midi_log,
                   net_log, codec>>

-----------------------------------------------------------------------------
(* The two relay threads *)

\* the server thread receives a datagram: liblo calls the method registered
\* for its path and type tag (line 126), and drops it when there is none
ServerReceive ==
    /\ server = "running"
    /\ pc \notin Terminated
    /\ Len(osc_log) < MaxOsc
    /\ \E d \in Datagrams :
          LET hit == <<d.path, d.types>> \in methods
              r   == IF hit THEN callback_on_osc(d.path, d.args, d.types)
                     ELSE [exc |-> "none", given |-> << >>, sent |-> << >>]
          IN  /\ osc_log' = Append(osc_log,
                     [path |-> d.path, types |-> d.types, args |-> d.args,
                      called |-> hit, exc |-> r.exc, given |-> r.given])
              /\ sink_log' = sink_log \o r.sent
    /\ UNCHANGED <<pc, exc, raised_at, exit_code, options_ip, local_ip, midi_in, midi_out,
                   target_address, server, methods, target, midi_callback,
                   released, midi_log, net_log, codec>>

\* an outbound callback that also echoes the event to the MIDI output
MidiEvent_echo ==
    /\ midi_callback
    /\ midi_in = "open"
    /\ pc \notin Terminated
    /\ Len(midi_log) < MaxMidi
    /\ \E message \in MidiEvents, send_ok \in BOOLEAN :
          LET r == callback_on_midi(target, message, send_ok)
          IN  /\ midi_log' = Append(midi_log,
                     [message |-> message, exc |-> r.exc, sent |-> r.sent])
              /\ net_log' = net_log \o r.sent
              /\ sink_log' = Append(sink_log, message)
    /\ UNCHANGED <<pc, exc, raised_at, exit_code, options_ip, local_ip,
                   midi_in, midi_out, target_address, server, methods,
                   target, midi_callback, released, osc_log, codec>>

\* the MIDI input delivers an event to midi_in.callback (line 131)
MidiEvent ==
    /\ midi_callback
    /\ midi_in = "open"
    /\ pc \notin Terminated
    /\ Len(midi_log) < MaxMidi
    /\ \E message \in MidiEvents, send_ok \in BOOLEAN :
          LET r == callback_on_midi(target, message, send_ok)
          IN  /\ midi_log' = Append(midi_log,
                     [message |-> message, exc |-> r.exc, sent |-> r.sent])
              /\ net_log' = net_log \o r.sent
    /\ UNCHANGED <<pc, exc, raised_at, exit_code, options_ip, local_ip, midi_in, midi_out,
                   target_address, server, methods, target, midi_callback,
                   released, osc_log, sink_log, codec>>

Next ==
    \/ ConfigurePorts
    \/ ResolvePeer
    \/ CreateServer
    \/ AddMethod
    \/ CreateTarget
    \/ SetCallback
    \/ ServerStart
    \/ Wait
    \/ StartupError
    \/ AbnormalExit
    \/ KeyboardInterrupt
    \/ HandlerStop
    \/ HandlerFree
    \/ HandlerClose
    \/ ServerReceive
    \/ MidiEvent

Spec == Init /\ [][Next]_vars

-----------------------------------------------------------------------------
(* The functions called one at a time *)

\* a target built as line 128 builds it
UnitTarget == [host |-> <<10, 0, 0, 5>>, port |-> PORT + 1, proto |-> "UDP"]

UnitInit ==
    /\ pc = "unit"
    /\ exc = "none"
    /\ raised_at = "none"
    /\ exit_code = -1
    /\ options_ip = NoIP
    /\ local_ip = NoIP
    /\ midi_in = "open"
    /\ midi_out = "open"
    /\ target_address = NoIP
    /\ server = "unbound"
    /\ methods = {}
    /\ target = UnitTarget
    /\ midi_callback = FALSE
    /\ released = << >>
    /\ osc_log = << >>
    /\ sink_log = << >>
    /\ midi_log = << >>
    /\ net_log = << >>
    /\ codec = NoCodec

\* nothing has been called yet: each behaviour of UnitSpec is one call
UnitIdle ==
    /\ codec.op = "none"
    /\ osc_log = << >>
    /\ midi_log = << >>
    /\ target_address = NoIP

UnitFrame == UNCHANGED <<pc, exc, raised_at, exit_code, options_ip, local_ip, midi_in, midi_out,
                         target_address, server, methods, target,
                         midi_callback, released>>

\* message_from_oscmidipayload([p])
UnitDecode ==
    /\ UnitIdle
    /\ \E p \in Payloads :
          codec' = [op |-> "decode", in |-> p, mid |-> << >>, exc |-> "none",
                    out |-> message_from_oscmidipayload(<<p>>)]
    /\ osc_log' = << >> /\ sink_log' = << >>
    /\ midi_log' = << >> /\ net_log' = << >>
    /\ UnitFrame

\* message_to_oscmidipayload(e)
UnitEncode ==
    /\ UnitIdle
    /\ \E e \in Messages :
          LET r == message_to_oscmidipayload(e)
          IN  codec' = [op |-> "encode", in |-> e, mid |-> << >>,
                        exc |-> r.exc, out |-> r.val]
    /\ osc_log' = << >> /\ sink_log' = << >>
    /\ midi_log' = << >> /\ net_log' = << >>
    /\ UnitFrame

\* message_from_oscmidipayload([message_to_oscmidipayload(e)])
UnitRoundTrip ==
    /\ UnitIdle
    /\ \E e \in Messages :
          LET r == message_to_oscmidipayload(e)
          IN  /\ r.exc = "none"
              /\ codec' = [op |-> "roundtrip", in |-> e, mid |-> r.val,
                           exc |-> "none",
                           out |-> message_from_oscmidipayload(<<r.val>>)]
    /\ osc_log' = << >> /\ sink_log' = << >>
    /\ midi_log' = << >> /\ net_log' = << >>
    /\ UnitFrame

\* create_callback_on_osc(sink) called with any path, type tag and argument,
\* on a sink that has received nothing
UnitOscCallback ==
    /\ UnitIdle
    /\ \E path \in Paths, types \in TypeTags, p \in Payloads :
          LET r == callback_on_osc(path, <<p>>, types)
          IN  /\ osc_log' = <<[path |-> path, types |-> types, args |-> <<p>>,
                               called |-> TRUE, exc |-> r.exc,
                               given |-> r.given]>>
              /\ sink_log' = r.sent
    /\ codec' = NoCodec
    /\ midi_log' = << >> /\ net_log' = << >>
    /\ UnitFrame

\* line 118-128 for any --ip and any address main_ip() returns
UnitResolve ==
    /\ UnitIdle
    /\ \/ \E opt \in UnitIPs :
             /\ options_ip' = opt
             /\ local_ip' = NoIP
             /\ target_address' = TargetAddress(opt, NoIP)
       \/ \E ip \in UnitIPs :
             /\ options_ip' = NoIP
             /\ local_ip' = ip
             /\ target_address' = TargetAddress(NoIP, ip)
    /\ target' = [host |-> target_address', port |-> PORT + 1,
                  proto |-> "UDP"]
    /\ UNCHANGED <<pc, exc, raised_at, exit_code, midi_in, midi_out, server,
                   methods, midi_callback, released, osc_log, sink_log,
                   midi_log, net_log, codec>>

UnitNext ==
    \/ UnitResolve
    \/ UnitDecode
    \/ UnitEncode
    \/ UnitRoundTrip
    \/ UnitOscCallback

UnitSpec == UnitInit /\ [][UnitNext]_vars

-----------------------------------------------------------------------------
(* Properties of the codec, checked under UnitSpec *)

\* a status byte that starts a 3-byte message
IsStatus3(b) == ~IsData(b) /\ SpecLength(b) = 3

\* C1, as the specification states it: a payload [p, s, d1, d2] (status
\* second, OSC 1.0 order) decodes to the event (s, d1, d2).
C1_DecodesReceiveOrder ==
    (/\ codec.op = "decode"
     /\ Len(codec.in) = 4
     /\ IsStatus3(codec.in[2])
     /\ IsData(codec.in[3])
     /\ IsData(codec.in[4]))
    => codec.out = <<codec.in[2], codec.in[3], codec.in[4]>>

\* C1, amended: decode reads the payload in the order [p, d2, d1, s] (status
\* last, the order encode writes): it decodes to the event (s, d1, d2)
\* whatever the port-id p is, and [0x00, 0x64, 0x3C, 0x90] decodes to note_on
\* with data1 = 60 and data2 = 100.
C1_DecodesTouchOscOrder ==
    /\ (/\ codec.op = "decode"
        /\ Len(codec.in) = 4
        /\ IsStatus3(codec.in[4])
        /\ IsData(codec.in[3])
        /\ IsData(codec.in[2]))
       => codec.out = <<codec.in[4], codec.in[3], codec.in[2]>>
    /\ (codec.op = "decode" /\ codec.in = <<0, 100, 60, 144>>)
       => (codec.out = <<144, 60, 100>> /\ MsgType(codec.out) = "note_on")

\* C1: the payload [0x00, 0x64, 0x3C, 0x90] has been decoded to note_on 60 100
C1_Witness ==
    /\ codec.op = "decode"
    /\ codec.in = <<0, 100, 60, 144>>
    /\ codec.out = <<144, 60, 100>>

\* C2: encode of an event with the bytes (status, data1, data2) returns
\* [0, data2, data1, status]; note_on 0x90 60 100 encodes to
\* [0x00, 0x64, 0x3C, 0x90].
C2_EncodesReversed ==
    /\ (codec.op = "encode" /\ Len(codec.in) = 3)
       => /\ codec.exc = "none"
          /\ codec.out = <<0, codec.in[3], codec.in[2], codec.in[1]>>
    /\ (codec.op = "encode" /\ codec.in = <<144, 60, 100>>)
       => codec.out = <<0, 100, 60, 144>>

\* C2: note_on 60 100 has been encoded
C2_Witness ==
    /\ codec.op = "encode"
    /\ codec.in = <<144, 60, 100>>
    /\ codec.exc = "none"
    /\ codec.out = <<0, 100, 60, 144>>

\* C3, as the specification states it: decode applied to the output of
\* encode(e) never gives back e.
C3_RoundTripDiffers ==
    codec.op = "roundtrip" => codec.out # codec.in

\* C3, amended: decode applied to the output of encode(e) gives back e, for
\* every event e of three bytes (status, data1, data2).
C3_RoundTripIsIdentity ==
    (codec.op = "roundtrip" /\ Len(codec.in) = 3) => codec.out = codec.in

\* C3: note_on 60 100 has gone through encode and then decode
C3_Witness ==
    /\ codec.op = "roundtrip"
    /\ codec.in = <<144, 60, 100>>
    /\ codec.mid = <<0, 100, 60, 144>>
    /\ codec.out = <<144, 60, 100>>

-----------------------------------------------------------------------------
(* Properties of the MIDI callback, checked under Spec *)

NonClock(entry) == MsgType(entry.message) # "clock"

\* a non-clock event with a second and a third byte
Relayed(entry) == NonClock(entry) /\ Len(entry.message) >= 3

\* an event encode can represent: not a clock, bytes (status, data1, data2)
Encodable(entry) == NonClock(entry) /\ Len(entry.message) = 3

\* C4, as the specification states it: every non-clock event (that encode
\* can represent) is sent once, to the target, as the message "/midi" with
\* the single 'm' argument encode(event) = [0, data2, data1, status].
C4_SendsEncodedMidiBlob ==
    \A i \in 1..Len(midi_log) :
        Encodable(midi_log[i])
           => /\ Len(midi_log[i].sent) = 1
              /\ midi_log[i].sent[1].to = target
              /\ midi_log[i].sent[1].path = "/midi"
              /\ midi_log[i].sent[1].types = "m"
              /\ midi_log[i].sent[1].args =
                    <<<<0, midi_log[i].message[3], midi_log[i].message[2],
                        midi_log[i].message[1]>>>>

\* C4, amended: every non-clock event of at least three bytes makes the
\* callback call liblo.send exactly once, to the target of line 128, with the
\* message "/midi/8/<data1>" carrying the single float ('f') argument
\* data2 / 128; the codec's encode is not called.
C4_SendsControllerFloat ==
    LET events == SelectSeq(midi_log, Relayed)
    IN  /\ Len(net_log) = Len(events)
        /\ \A i \in 1..Len(events) :
              /\ Len(events[i].sent) = 1
              /\ events[i].sent[1] = net_log[i]
              /\ target # NoTarget
              /\ net_log[i].to = target
              /\ net_log[i].path =
                    "/midi/8/" \o ToString(events[i].message[2])
              /\ net_log[i].types = "f"
              /\ net_log[i].args =
                    <<[num |-> events[i].message[3], den |-> 128]>>

\* C4: note_on 60 100 has been sent as "/midi/8/60" with the float 100/128
C4_Witness ==
    /\ Len(midi_log) >= 1
    /\ midi_log[1].message = <<144, 60, 100>>
    /\ Len(net_log) >= 1
    /\ net_log[1].path = "/midi/8/60"
    /\ net_log[1].args = <<[num |-> 100, den |-> 128]>>

\* C5, as the specification states it: no send is made for a clock event, and
\* the number of sends equals the number of non-clock events.
C5_SendsEqualNonClockEvents ==
    /\ \A i \in 1..Len(midi_log) :
          ~NonClock(midi_log[i]) => midi_log[i].sent = << >>
    /\ Len(net_log) = Len(SelectSeq(midi_log, NonClock))

\* C5, amended: the callback returns at once on a clock event, without a
\* send and without an error; the number of liblo.send calls equals the
\* number of non-clock events of at least three bytes (a shorter one raises
\* IndexError before the send), and is zero if all events are clock events.
C5_ClockNeverSent ==
    /\ \A i \in 1..Len(midi_log) :
          ~NonClock(midi_log[i])
             => (midi_log[i].sent = << >> /\ midi_log[i].exc = "none")
    /\ Len(net_log) = Len(SelectSeq(midi_log, Relayed))
    /\ (\A i \in 1..Len(midi_log) : ~NonClock(midi_log[i]))
          => net_log = << >>

\* C5: a clock event and then a note_on were delivered; only the note_on was
\* sent
C5_Witness ==
    /\ Len(midi_log) = 2
    /\ midi_log[1].message = <<248>>
    /\ midi_log[1].sent = << >>
    /\ midi_log[2].message = <<144, 60, 100>>
    /\ Len(net_log) = 1

\* C10, as the specification states it: a failing liblo.send does not raise
\* out of the callback (the event is dropped and the callback returns).
C10_SendFailureContained ==
    \A i \in 1..Len(midi_log) :
        (\E k \in 1..Len(midi_log[i].sent) : ~midi_log[i].sent[k].ok)
           => midi_log[i].exc = "none"

-----------------------------------------------------------------------------
(* Properties of the OSC callback, checked under UnitSpec *)

\* the calls of the callback with the registered path and type tag
MidiBlob(entry) == entry.path = "/midi" /\ entry.types = "m"

\* C6, as the specification states it: a payload whose length is not 4 makes
\* decode fail (no event comes out of it) and nothing reaches the sink.
C6_WrongLengthRejected ==
    /\ (codec.op = "decode" /\ Len(codec.in) # 4) => codec.out = None
    /\ \A i \in 1..Len(osc_log) :
          (MidiBlob(osc_log[i]) /\ Len(osc_log[i].args[1]) # 4)
             => (osc_log[i].exc # "none" /\ sink_log = << >>)

\* C6, amended: a payload whose length is not 4 is not rejected. decode
\* parses the payload's last four bytes (all of a shorter one) in reverse:
\* when the payload ends [.., d2, d1, s], s a 3-byte status and d1, d2 data
\* bytes, decode returns the event (s, d1, d2) and the callback delivers it to
\* the sink without error; the callback never raises on the length itself:
\* the only error is the sink's refusal of "no message", with nothing
\* delivered.
C6_LastFourBytesDecoded ==
    /\ (/\ codec.op = "decode"
        /\ Len(codec.in) # 4
        /\ Len(codec.in) >= 3
        /\ IsStatus3(codec.in[Len(codec.in)])
        /\ IsData(codec.in[Len(codec.in) - 1])
        /\ IsData(codec.in[Len(codec.in) - 2]))
       => codec.out = <<codec.in[Len(codec.in)], codec.in[Len(codec.in) - 1],
                        codec.in[Len(codec.in) - 2]>>
    /\ \A i \in 1..Len(osc_log) :
          LET p == osc_log[i].args[1]
              n == Len(p)
          IN  (MidiBlob(osc_log[i]) /\ n # 4)
                 => /\ osc_log[i].exc \in {"none", "TypeError"}
                    /\ osc_log[i].exc = "TypeError" <=> sink_log = << >>
                    /\ (/\ n >= 3
                        /\ IsStatus3(p[n])
                        /\ IsData(p[n - 1])
                        /\ IsData(p[n - 2]))
                       => (/\ osc_log[i].exc = "none"
                           /\ sink_log = <<<<p[n], p[n - 1], p[n - 2]>>>>)

\* C6: the 5-byte payload [0, 0, 100, 60, 0x90] was handed to the callback
\* and note_on 60 100 reached the sink
C6_Witness ==
    /\ Len(osc_log) = 1
    /\ MidiBlob(osc_log[1])
    /\ osc_log[1].args = <<<<0, 0, 100, 60, 144>>>>
    /\ osc_log[1].exc = "none"
    /\ sink_log = <<<<144, 60, 100>>>>

\* C7, as the specification states it: called with a path other than "/midi"
\* or a type tag other than "m", the callback returns without raising and
\* without calling sink.send.
C7_MismatchDiscardedSilently ==
    \A i \in 1..Len(osc_log) :
        (osc_log[i].called /\ ~MidiBlob(osc_log[i]))
           => (osc_log[i].exc = "none" /\ sink_log = << >>)

-----------------------------------------------------------------------------
(* Properties of main()'s shutdown, checked under Spec *)

NotFree(call) == call # "server.free"

\* C8, as the specification states it: after an interrupt the listener is
\* stopped, then the MIDI input is released, then the MIDI output is
\* released, each once, and all three are released when main() is done.
C8_ShutdownReleasesAllThree ==
    (exc = "KeyboardInterrupt" /\ pc = "done")
       => /\ SelectSeq(released, NotFree) =
                <<"server.stop", "midi_in.close", "midi_out.close">>
          /\ server \in {"stopped", "freed"}
          /\ midi_in = "closed"
          /\ midi_out = "closed"

\* C9, as the specification states it: however the wait loop is left, by
\* KeyboardInterrupt or by anything else, the process ends with the
\* handler's releases done and no error raised.
C9_ShutdownOnAnyExit ==
    (raised_at = "wait" /\ pc \in Terminated)
       => /\ SelectSeq(released, NotFree) = <<"server.stop", "midi_in.close">>
          /\ server \in {"stopped", "freed"}
          /\ midi_in = "closed"
          /\ pc = "done"

-----------------------------------------------------------------------------
(* Properties of the two relays under errors, checked under Spec *)

\* a "/midi" 'm' datagram whose payload holds no message for decode
Undecodable(entry) ==
    /\ entry.called
    /\ MidiBlob(entry)
    /\ ~(/\ Len(entry.args[1]) = 4
         /\ IsStatus3(entry.args[1][4])
         /\ IsData(entry.args[1][3])
         /\ IsData(entry.args[1][2]))

\* C11, as the specification states it: a datagram whose decode yields no
\* event is discarded: sink.send is not called and the callback raises
\* nothing.
C11_UndecodableDiscarded ==
    \A i \in 1..Len(osc_log) :
        Undecodable(osc_log[i])
           => (osc_log[i].given = << >> /\ osc_log[i].exc = "none")

\* C12, as the specification states it: a non-clock event whose byte form is
\* not (status, data1, data2) is dropped: nothing is sent and no error
\* leaves the callback.
C12_UnsupportedEventDropped ==
    \A i \in 1..Len(midi_log) :
        (NonClock(midi_log[i]) /\ Len(midi_log[i].message) # 3)
           => (midi_log[i].sent = << >> /\ midi_log[i].exc = "none")

-----------------------------------------------------------------------------
(* Properties of the peer, checked under UnitSpec (C13) and Spec (C14) *)

\* C13: with an explicit --ip the peer host is exactly that address; without
\* one, and main_ip() returning A.B.C.D, the peer host is A.B.255.255.
C13_PeerHost ==
    target_address # NoIP
       => /\ target # NoTarget => target.host = target_address
          /\ options_ip # NoIP => target_address = options_ip
          /\ options_ip = NoIP
                => (/\ local_ip # NoIP
                    /\ target_address = <<local_ip[1], local_ip[2], 255, 255>>)

\* C13: the peer was inferred from the local address 128.1.254.0
C13_Witness ==
    /\ options_ip = NoIP
    /\ local_ip = <<128, 1, 254, 0>>
    /\ target.host = <<128, 1, 255, 255>>

\* C14: every message the process sends goes to the one peer resolved at
\* startup, on UDP port 12346 (the listening port 12345 plus one).
C14_SinglePeer ==
    \A i \in 1..Len(net_log) :
        /\ net_log[i].to = target
        /\ net_log[i].to.host = target_address
        /\ net_log[i].to.port = 12346
        /\ net_log[i].to.port = PORT + 1
        /\ \A j \in 1..Len(net_log) : net_log[j].to = net_log[i].to

\* C14: two messages were sent while the process ran
C14_Witness ==
    /\ Len(net_log) = 2
    /\ net_log[1].to.port = 12346
    /\ net_log[2].to = net_log[1].to

-----------------------------------------------------------------------------
(* Properties of startup and of the interrupt handler, checked under Spec *)

StartupFailures == {"IOError", "socket.error", "ServerError"}

HandlerSteps == <<"server.stop", "server.free", "midi_in.close">>

\* C16: a startup failure ends the process with a non-zero exit status before
\* the listener runs, before the wait state and before anything is relayed;
\* an interrupt received in the wait state ends it with exit status 0, and
\* only once the handler has stopped and freed the listener and closed the
\* MIDI input.
C16_StartupFatalInterruptClean ==
    /\ exc \in StartupFailures
          => /\ pc = "crashed"
             /\ exit_code = 1
             /\ raised_at \in {"configure_ioports", "resolve_peer",
                               "ServerThread"}
             /\ server = "unbound"
             /\ ~midi_callback
             /\ osc_log = << >> /\ sink_log = << >>
             /\ midi_log = << >> /\ net_log = << >>
    /\ (exc = "KeyboardInterrupt" /\ raised_at = "wait")
          => /\ exit_code \in {-1, 0}
             /\ pc \in {"server_stop", "server_free", "midi_in_close", "done"}
             /\ exit_code = 0 <=> pc = "done"
             /\ pc = "done" => /\ released = HandlerSteps
                               /\ server = "freed"
                               /\ midi_in = "closed"
    /\ exit_code = 0 => (exc = "KeyboardInterrupt" /\ released = HandlerSteps)

\* C16: the listener could not be bound and the process has failed
C16_Witness ==
    /\ exc = "ServerError"
    /\ pc = "crashed"
    /\ exit_code = 1

\* C16: an interrupt in the wait state has ended the process with status 0
C16_WitnessInterrupt ==
    /\ exc = "KeyboardInterrupt"
    /\ raised_at = "wait"
    /\ exit_code = 0

-----------------------------------------------------------------------------
(* Properties of the two relays running side by side, checked under Spec *)

\* what the datagram of one osc_log entry makes the sink receive
SinkOf(entry) ==
    IF entry.path = "/midi" /\ entry.types = "m"
    THEN callback_on_osc(entry.path, entry.args, entry.types).sent
    ELSE << >>

RECURSIVE SinkTrace(_)
SinkTrace(log) ==
    IF log = << >> THEN << >>
    ELSE SinkOf(Head(log)) \o SinkTrace(Tail(log))

RECURSIVE NetTrace(_)
NetTrace(log) ==
    IF log = << >> THEN << >>
    ELSE Head(log).sent \o NetTrace(Tail(log))

\* C17: in every interleaving of the two callbacks, what the MIDI output
\* received is determined by the datagrams received alone and what was sent to
\* the peer by the MIDI input events (and the fixed peer) alone; a step of one
\* direction changes nothing the other direction reads or writes.
C17_DirectionsIndependent ==
    /\ [](/\ sink_log = SinkTrace(osc_log)
          /\ net_log = NetTrace(midi_log)
          /\ \A i \in 1..Len(midi_log) :
                \E ok \in BOOLEAN :
                   midi_log[i].sent =
                      callback_on_midi(target, midi_log[i].message, ok).sent)
    /\ [][/\ osc_log' # osc_log
             => (midi_log' = midi_log /\ net_log' = net_log)
          /\ midi_log' # midi_log
             => (osc_log' = osc_log /\ sink_log' = sink_log)
          /\ sink_log' # sink_log => osc_log' # osc_log
          /\ net_log' # net_log => midi_log' # midi_log
          /\ (osc_log' # osc_log \/ midi_log' # midi_log)
             => (target' = target /\ methods' = methods)]_vars

\* C17: both directions have relayed twice in one run
C17_Witness ==
    /\ Len(osc_log) = 2
    /\ Len(midi_log) = 2
    /\ Len(sink_log) = 2
    /\ Len(net_log) = 2

\* a /midi ,m datagram whose blob is [port, data2, data1, status] with the
\* status byte of a three-byte channel message
WellFormed(entry) ==
    /\ entry.path = "/midi"
    /\ entry.types = "m"
    /\ Len(entry.args) = 1
    /\ Len(entry.args[1]) = 4
    /\ IsStatus3(entry.args[1][4])
    /\ IsData(entry.args[1][3])
    /\ IsData(entry.args[1][2])

\* the event a well-formed datagram stands for
EventOf(entry) == <<entry.args[1][4], entry.args[1][3], entry.args[1][2]>>

\* C18: every well-formed /midi ,m datagram received by the running listener
\* made the callback call sink.send exactly once, with its decoded event and
\* without error, and the sink received exactly these events, once each and in
\* arrival order.
C18_NoLossNoDuplication ==
    LET wf == SelectSeq(osc_log, WellFormed)
    IN  /\ \A i \in 1..Len(osc_log) :
              WellFormed(osc_log[i])
                 => /\ osc_log[i].called
                    /\ osc_log[i].exc = "none"
                    /\ osc_log[i].given = <<EventOf(osc_log[i])>>
        /\ Len(sink_log) = Len(wf)
        /\ \A i \in 1..Len(wf) : sink_log[i] = EventOf(wf[i])

\* C18: two well-formed datagrams of different events arrived and both
\* events reached the sink
C18_Witness ==
    /\ Len(osc_log) = 2
    /\ WellFormed(osc_log[1])
    /\ WellFormed(osc_log[2])
    /\ EventOf(osc_log[1]) # EventOf(osc_log[2])
    /\ sink_log = <<EventOf(osc_log[1]), EventOf(osc_log[2])>>

\* C19: whenever the interrupt handler is about to run, the listener and the
\* MIDI input it stops and closes have been created.
C19_HandlerResourcesExist ==
    pc = "server_stop" => (server # "unbound" /\ midi_in # "unbound")

\* C20: the listener runs only once the /midi ,m handler is registered, the
\* MIDI output it feeds is open and the outbound callback is attached; the
\* wait state is entered only with the listener started; and every datagram
\* handled found an open sink.
C20_StartupOrder ==
    /\ server = "running"
          => /\ <<"/midi", "m">> \in methods
             /\ midi_out = "open"
             /\ midi_callback
             /\ target # NoTarget
    /\ pc = "wait" => server = "running"
    /\ osc_log # << >> => (midi_out = "open" /\ <<"/midi", "m">> \in methods)
    /\ midi_log # << >> => (midi_callback /\ target # NoTarget)

\* C20: an outbound message was sent while the listener was created but not
\* yet started
C20_Witness ==
    /\ server = "created"
    /\ pc = "server_start"
    /\ net_log # << >>
    /\ osc_log = << >>

====
